---- MODULE Spec2Model ----
(***************************************************************************)
(* Model of the elferspot_listings pipeline: the exchange-rate provider    *)
(* (utils/exchange_rates.py), the currency converter, the Bronze -> Silver *)
(* record cleaner (data_processing/bronze_to_silver.py), the Silver ->     *)
(* Gold feature step (data_processing/silver_to_gold.py) and two runs of   *)
(* the rate provider sharing one cache file.  Each has its own             *)
(* specification (SpecRates, SpecConvert, SpecClean, SpecGold,             *)
(* SpecOutliers, SpecRace); the variables of the others stay idle in it.   *)
(*                                                                         *)
(* Conventions.                                                            *)
(*   - A Python float is an exact rational <<n, d>> in lowest terms with   *)
(*     d > 0 (rounding of IEEE doubles is not modelled).                   *)
(*   - A Python str is a sequence of one-character strings.                *)
(*   - A Python dict is a function whose DOMAIN is the set of keys.        *)
(*   - A computation that can raise yields [exc, val]; try/except blocks   *)
(*     of the source are the operators that inspect exc.                   *)
(***************************************************************************)
EXTENDS Integers, Sequences, FiniteSets, TLC

VARIABLES now, cache, call, ticks, fetched, conv,
          stage, raw, df, drop_shop_links, run_rates, run_fetch,
          gold_stage, silver, gold, remove_price_outliers, outlier_std, band,
          disk, runs, dumped

rateVars == <<now, cache, call, ticks, fetched>>

cleanVars == <<stage, raw, df, drop_shop_links, run_rates, run_fetch>>

goldVars == <<gold_stage, silver, gold, remove_price_outliers, outlier_std>>

raceVars == <<disk, runs, dumped>>

restVars == <<goldVars, band, raceVars>>

vars == <<rateVars, conv, cleanVars, restVars>>

(***************************************************************************)
(* Bounds of the model.                                                    *)
(***************************************************************************)
\* number of clock advances in one behaviour
MaxTicks == 2
\* number of rows of a raw (Bronze) table
MaxRows == 2

\* rows of a Silver table
MaxGoldRows == 3

(***************************************************************************)
(* Floats as exact rationals.                                              *)
(***************************************************************************)
Abs(n) == IF n < 0 THEN -n ELSE n

RECURSIVE GCD(_, _)
GCD(a, b) == IF b = 0 THEN a ELSE GCD(b, a % b)

\* the rational n/d (d # 0) in lowest terms, denominator positive
Rat(n, d) ==
    LET g == GCD(Abs(n), Abs(d))
        s == IF d < 0 THEN -1 ELSE 1
    IN  <<(s * n) \div g, (s * d) \div g>>

Zero == <<0, 1>>
One == <<1, 1>>

\* a * b, cross-reduced before multiplying
RatMul(a, b) ==
    LET x == Rat(a[1], b[2])
        y == Rat(b[1], a[2])
    IN  Rat(x[1] * y[1], x[2] * y[2])

\* 1.0 / a for a # 0
RatInv(a) == Rat(a[2], a[1])

RatLess(a, b) == a[1] * b[2] < b[1] * a[2]

RatAdd(a, b) == Rat(a[1] * b[2] + b[1] * a[2], a[2] * b[2])

RatSub(a, b) == RatAdd(a, <<-b[1], b[2]>>)

EmptyMap == [c \in {} |-> Zero]

\* dict.get(key, default)
Get(d, key, default) == IF key \in DOMAIN d THEN d[key] ELSE default

(***************************************************************************)
(* exchange_rates.py: constants.                                           *)
(***************************************************************************)
TTL_SECONDS == 24 * 3600

STATIC_FALLBACK ==
    [c \in {"EUR", "USD", "GBP", "JPY", "CHF"} |->
        CASE c = "EUR" -> Rat(1, 1)
          [] c = "USD" -> Rat(8779, 10000)
          [] c = "GBP" -> Rat(11870, 10000)
          [] c = "JPY" -> Rat(6076, 1000000)
          [] c = "CHF" -> Rat(10660, 10000)]

\* symbols requested when the caller passes none (line 76)
DefaultSymbols == {"USD", "GBP", "JPY", "CHF"}

(***************************************************************************)
(* The cache file.  kind is "absent" (no file), "corrupt" (a file that     *)
(* json.load rejects: empty, truncated by an interrupted write, garbage)   *)
(* or "ok" (the object {'ts': ts, 'rates': rates} that _write_cache        *)
(* dumps; json round-trips its floats and string keys exactly).            *)
(***************************************************************************)
NoFile == [kind |-> "absent", ts |-> 0, rates |-> EmptyMap]
CorruptFile == [kind |-> "corrupt", ts |-> 0, rates |-> EmptyMap]
CacheFile(ts, rates) == [kind |-> "ok", ts |-> ts, rates |-> rates]

(***************************************************************************)
(* Results of computations that may raise.                                 *)
(***************************************************************************)
Ok(v) == [exc |-> FALSE, val |-> v]
Raise == [exc |-> TRUE, val |-> EmptyMap]

(***************************************************************************)
(* The rate service.  A response is a transport/parse failure, or a 2xx    *)
(* JSON object whose 'rates' table maps symbols to JSON values: a number,  *)
(* null, or a string.  A 2xx object without a 'rates' key reads as the     *)
(* empty table (data.get('rates', {})).                                    *)
(***************************************************************************)
Num(q) == [t |-> "num", v |-> q]
JsonNull == [t |-> "null", v |-> Zero]
JsonStr == [t |-> "str", v |-> Zero]

FailureKinds == {"connection_error", "timeout", "http_error", "bad_json"}

Failure(k) == [kind |-> k, rates |-> EmptyMap]
Success(table) == [kind |-> "ok", rates |-> table]

GoodOthers ==
    [c \in {"GBP", "JPY", "CHF"} |->
        CASE c = "GBP" -> Num(Rat(4, 5))
          [] c = "JPY" -> Num(Rat(160, 1))
          [] c = "CHF" -> Num(Rat(1, 1))]

\* every requested symbol answered with a usable rate
FullTable == [c \in {"USD"} |-> Num(Rat(5, 4))] @@ GoodOthers

\* USD answered 0 and GBP answered null
ZeroTable == [c \in {"USD", "GBP"} |-> IF c = "USD" THEN Num(Zero) ELSE JsonNull] @@ GoodOthers

\* USD answered with a string
StrTable == [c \in {"USD"} |-> JsonStr] @@ GoodOthers

\* keys nobody asked for: the base itself, and a currency unknown to the
\* static table answered 0
ExtraTable ==
    [c \in {"USD", "EUR", "XXX"} |->
        CASE c = "USD" -> Num(Rat(2, 1))
          [] c = "EUR" -> Num(Rat(2, 1))
          [] c = "XXX" -> Num(Zero)] @@ GoodOthers

RateTables == {FullTable, EmptyMap, ZeroTable, StrTable, ExtraTable}

Responses == {Failure(k) : k \in FailureKinds} \cup {Success(t) : t \in RateTables}

\* outcomes of _write_cache: written; mkdir/open refused (file untouched);
\* open truncated the file and the dump was cut short
WriteOutcomes == {"ok", "denied", "partial"}

(***************************************************************************)
(* exchange_rates.py: _load_cache, _write_cache, fetch_latest_rates.       *)
(***************************************************************************)
\* lines 31-37 and 41: the body of the try block
LoadCacheTry(file, t) ==
    IF file.kind = "absent" THEN Ok(EmptyMap)
    ELSE IF file.kind = "corrupt" THEN Raise
    ELSE IF t - file.ts < TTL_SECONDS THEN Ok(file.rates)
    ELSE Ok(EmptyMap)

\* _load_cache without its except clause
LoadCacheNoExcept(file, t) == LoadCacheTry(file, t)

\* _load_cache comparing the age with <= instead of <
LoadCacheTtlInclusive(file, t) ==
    IF file.kind = "ok" /\ t - file.ts <= TTL_SECONDS THEN Ok(file.rates)
    ELSE Ok(EmptyMap)

\* lines 28-41: any exception of the body is caught and {} returned
_load_cache(file, t) ==
    LET r == LoadCacheTry(file, t)
    IN  IF r.exc THEN Ok(EmptyMap) ELSE r

\* _write_cache that refuses to replace an existing file
WriteCacheExclusive(rates, file, t, outcome) ==
    IF file.kind # "absent" THEN file
    ELSE IF outcome = "ok" THEN CacheFile(t, rates) ELSE file

\* lines 44-52: the file after the attempt; exceptions are caught
_write_cache(rates, file, t, outcome) ==
    CASE outcome = "ok" -> CacheFile(t, rates)
      [] outcome = "denied" -> file
      [] outcome = "partial" -> CorruptFile

\* Python truthiness of rates_base.get(c) (line 96)
Truthy(table, c) ==
    /\ c \in DOMAIN table
    /\ table[c].t # "null"
    /\ ~(table[c].t = "num" /\ table[c].v = Zero)

\* lines 95-98 without line 99
InvertTable(table) ==
    IF \E c \in DOMAIN table : Truthy(table, c) /\ table[c].t = "str"
    THEN Raise  \* 1.0 / str is a TypeError
    ELSE Ok([c \in DOMAIN table |->
                IF Truthy(table, c) THEN RatInv(table[c].v)
                ELSE Get(STATIC_FALLBACK, c, One)])

\* the conversion without line 99
RatesToEurNoInject(table) == InvertTable(table)

\* the conversion rejecting a table that lacks a usable rate for a requested symbol
RatesToEurStrict(table) ==
    IF \E c \in DefaultSymbols : ~Truthy(table, c) THEN Raise
    ELSE LET r == InvertTable(table)
         IN  IF r.exc THEN r
             ELSE Ok([c \in DOMAIN r.val \cup {"EUR"} |->
                        IF c = "EUR" THEN One ELSE r.val[c]])

\* lines 95-99: the inverted table with EUR forced to 1.0
RatesToEur(table) ==
    LET r == InvertTable(table)
    IN  IF r.exc THEN r
        ELSE Ok([c \in DOMAIN r.val \cup {"EUR"} |-> IF c = "EUR" THEN One ELSE r.val[c]])

\* lines 88-91: the request, raise_for_status, r.json(), data.get('rates', {})
HttpGet(resp) == IF resp.kind = "ok" THEN Ok(resp.rates) ELSE Raise

\* a fallback that forgets the static table
FallbackEmpty(file, t) ==
    LET cached == _load_cache(file, t)
    IN  IF cached.val # EmptyMap
        THEN [ret |-> cached.val, source |-> "cache"]
        ELSE [ret |-> EmptyMap, source |-> "static"]

\* lines 105-113: the except branch
Fallback(file, t) ==
    LET cached == _load_cache(file, t)
    IN  IF cached.exc THEN [ret |-> EmptyMap, source |-> "raised"]
        ELSE IF cached.val # EmptyMap
        THEN [ret |-> cached.val, source |-> "cache"]
        ELSE [ret |-> STATIC_FALLBACK, source |-> "static"]

\* lines 85-113: the network attempt and its except branch
FetchFromNetwork(file, t, resp, wout) ==
    LET got == HttpGet(resp)
        inv == IF got.exc THEN Raise ELSE RatesToEur(got.val)
    IN  IF inv.exc
        THEN LET fb == Fallback(file, t)
             IN  [ret |-> fb.ret, source |-> fb.source, net |-> TRUE, wrote |-> "none",
                  file |-> file]
        ELSE [ret |-> inv.val, source |-> "network", net |-> TRUE, wrote |-> wout,
              file |-> _write_cache(inv.val, file, t, wout)]

\* lines 55-113
fetch_latest_rates(use_cache, file, t, resp, wout) ==
    LET cached == IF use_cache THEN _load_cache(file, t) ELSE Ok(EmptyMap)
    IN  IF cached.exc
        THEN [ret |-> EmptyMap, source |-> "raised", net |-> FALSE, wrote |-> "none",
              file |-> file]
        ELSE IF use_cache /\ cached.val # EmptyMap
        THEN [ret |-> cached.val, source |-> "cache_first", net |-> FALSE,
              wrote |-> "none", file |-> file]
        ELSE FetchFromNetwork(file, t, resp, wout)

(***************************************************************************)
(* exchange_rates.py: convert_to_eur.  The amount is a cell: a number, or  *)
(* a text (a str times a float is a TypeError).  A cell is [t, s, q]: its  *)
(* kind, its characters and its numeric value.  Currency codes are only    *)
(* compared and looked up, so they are atoms.                              *)
(***************************************************************************)
Number(q) == [t |-> "num", s |-> <<>>, q |-> q]
Text(s) == [t |-> "text", s |-> s, q |-> Zero]

\* convert_to_eur without the early return of lines 128-129
ConvertNoBypass(amount, currency, rates) ==
    IF amount.t = "num"
    THEN Ok(Number(RatMul(amount.q, Get(rates, currency, Get(STATIC_FALLBACK, currency, One)))))
    ELSE Raise

\* lines 128-135, for rates that are not None
convert_to_eur(amount, currency, rates) ==
    IF currency = "EUR" THEN Ok(amount)
    ELSE LET rate == Get(rates, currency, Get(STATIC_FALLBACK, currency, One))
         IN  IF amount.t = "num" THEN Ok(Number(RatMul(amount.q, rate))) ELSE Raise

(***************************************************************************)
(* The rate provider as a state machine: calls of fetch_latest_rates       *)
(* interleaved with the passing of time.  call describes the call that has *)
(* just returned (its inputs, the file it found, what it returned and by   *)
(* which path) and is cleared when time moves on, so call.done implies     *)
(* that the call was made at time now.  fetched remembers the most recent  *)
(* call whose network fetch succeeded.                                     *)
(***************************************************************************)
NoCall ==
    [done |-> FALSE, use_cache |-> FALSE, before |-> NoFile,
     resp |-> Failure("none"), ret |-> EmptyMap, source |-> "none", net |-> FALSE,
     wrote |-> "none"]

NoFetch == [some |-> FALSE, at |-> 0, rates |-> EmptyMap, wrote |-> FALSE]

RatesInit ==
    /\ now = 0
    /\ cache = NoFile
    /\ call = NoCall
    /\ ticks = 0
    /\ fetched = NoFetch

\* no conversion requested
ConvIdle ==
    [done |-> FALSE, armed |-> FALSE, amount |-> Number(Zero), currency |-> "EUR",
     given |-> TRUE, rates |-> EmptyMap, out |-> Number(Zero), raised |-> FALSE]

\* fetch_latest_rates calls and HTTP requests made so far by a run
NoFetches == [calls |-> 0, requests |-> 0]

\* no Bronze -> Silver run
CleanIdle ==
    /\ stage = "idle"
    /\ raw = <<>>
    /\ df = <<>>
    /\ drop_shop_links = TRUE
    /\ run_rates = EmptyMap
    /\ run_fetch = NoFetches

\* no Silver -> Gold run
GoldIdle ==
    /\ gold_stage = "idle"
    /\ silver = <<>>
    /\ gold = <<>>
    /\ remove_price_outliers = TRUE
    /\ outlier_std = Rat(3, 1)

\* no remove_outliers call
NoBand ==
    [done |-> FALSE, table |-> <<>>, n_std |-> Rat(3, 1), use_log |-> FALSE,
     raised |-> FALSE, out |-> <<>>]

\* the bytes of the cache file: none, the file does not exist
NoDisk == [exists |-> FALSE, bytes |-> <<>>]

\* no concurrent runs
RaceIdle ==
    /\ disk = NoDisk
    /\ runs = <<>>
    /\ dumped = <<>>

RestIdle == GoldIdle /\ band = NoBand /\ RaceIdle

SpecRatesInit == RatesInit /\ conv = ConvIdle /\ CleanIdle /\ RestIdle

GetRates(use_cache, resp, wout) ==
    /\ \E r \in {fetch_latest_rates(use_cache, cache, now, resp, wout)} :
           /\ cache' = r.file
           /\ call' = [done |-> TRUE, use_cache |-> use_cache, before |-> cache,
                       resp |-> IF r.net THEN resp ELSE Failure("none"),
                       ret |-> r.ret, source |-> r.source, net |-> r.net,
                       wrote |-> r.wrote]
           /\ fetched' = IF r.source = "network"
                         THEN [some |-> TRUE, at |-> now, rates |-> r.ret,
                               wrote |-> (r.wrote = "ok")]
                         ELSE fetched
    /\ UNCHANGED <<now, ticks, conv, cleanVars, restVars>>

\* time passes: by one second, or by one second less than the TTL
Tick(d) ==
    /\ ticks < MaxTicks
    /\ now' = now + d
    /\ ticks' = ticks + 1
    /\ call' = NoCall
    /\ UNCHANGED <<cache, fetched, conv, cleanVars, restVars>>

\* the write outcome is an input only of a call that reaches _write_cache
WriteChoices(resp) ==
    IF resp.kind = "ok" /\ ~RatesToEur(resp.rates).exc THEN WriteOutcomes ELSE {"ok"}

RatesNext ==
    \/ \E u \in BOOLEAN, resp \in Responses :
          \E w \in WriteChoices(resp) : GetRates(u, resp, w)
    \/ \E d \in {1, TTL_SECONDS - 1} : Tick(d)

SpecRates == SpecRatesInit /\ [][RatesNext]_vars

(***************************************************************************)
(* The converter on its own: one call of convert_to_eur on an amount, a    *)
(* currency and either a rate mapping or None (then line 132 fetches one). *)
(***************************************************************************)
Amounts == {Number(Rat(100, 1)), Number(Zero), Number(Rat(-5, 1)), Number(Rat(1, 2)), Text(<<"a", "b", "c">>)}

ConvCurrencies == {"EUR", "USD", "JPY", "XXX"}

\* mappings a caller may pass: empty, with and without the currency, and one
\* that gives EUR a multiplier other than 1
ConvRates ==
    {EmptyMap,
     [c \in {"EUR", "USD"} |-> IF c = "EUR" THEN One ELSE Rat(9, 10)],
     [c \in {"EUR", "XXX"} |-> IF c = "EUR" THEN Rat(2, 1) ELSE Rat(3, 1)]}

ConvInit ==
    /\ RatesInit
    /\ CleanIdle
    /\ RestIdle
    /\ conv \in {[done |-> FALSE, armed |-> TRUE, amount |-> a, currency |-> c,
                  given |-> g, rates |-> IF g THEN r ELSE EmptyMap,
                  out |-> Number(Zero), raised |-> FALSE] :
                    a \in Amounts, c \in ConvCurrencies, g \in BOOLEAN, r \in ConvRates}

\* lines 116-135 with rates passed by the caller
ConvertToEur ==
    /\ conv.armed /\ ~conv.done /\ conv.given
    /\ LET r == convert_to_eur(conv.amount, conv.currency, conv.rates)
       IN  conv' = [conv EXCEPT !.done = TRUE, !.raised = r.exc,
                                !.out = IF r.exc THEN Number(Zero) ELSE r.val]
    /\ UNCHANGED <<rateVars, cleanVars, restVars>>

\* lines 116-135 with rates = None: EUR returns before any fetch, every other
\* currency fetches the mapping first (line 132)
ConvertToEurFetching(resp, wout) ==
    /\ conv.armed /\ ~conv.done /\ ~conv.given
    /\ LET f == fetch_latest_rates(TRUE, cache, now, resp, wout)
           fetches == conv.currency # "EUR"
           used == IF fetches THEN f.ret ELSE EmptyMap
           r == convert_to_eur(conv.amount, conv.currency, used)
       IN  /\ conv' = [conv EXCEPT !.done = TRUE, !.raised = r.exc, !.rates = used,
                                   !.out = IF r.exc THEN Number(Zero) ELSE r.val]
           /\ cache' = IF fetches THEN f.file ELSE cache
    /\ UNCHANGED <<now, call, ticks, fetched, cleanVars, restVars>>

ConvNext ==
    \/ ConvertToEur
    \/ \E resp \in Responses : \E w \in WriteChoices(resp) : ConvertToEurFetching(resp, w)

SpecConvert == ConvInit /\ [][ConvNext]_vars

(***************************************************************************)
(* String literals of bronze_to_silver.py and texts of the raw tables.     *)
(***************************************************************************)
STR_NAN == <<"n", "a", "n">>
STR_KM == <<"k", "m">>
STR_MI == <<"m", "i">>
STR_FULLY_RESTORED == <<"f", "u", "l", "l", "y", " ", "r", "e", "s", "t", "o", "r", "e", "d">>
STR_Unknown == <<"U", "n", "k", "n", "o", "w", "n">>
STR_UNKNOWN == <<"u", "n", "k", "n", "o", "w", "n">>
STR_YES == <<"y", "e", "s">>
STR_Yes == <<"Y", "e", "s">>
STR_Good == <<"G", "o", "o", "d">>
STR_SHOP_PREFIX ==
    <<"h", "t", "t", "p", "s", ":", "/", "/", "w", "w", "w", ".", "e", "l",
      "f", "e", "r", "s", "p", "o", "t", ".", "c", "o", "m", "/", "e", "n",
      "/", "s", "h", "o", "p", "/">>
URL_A ==
    <<"h", "t", "t", "p", "s", ":", "/", "/", "w", "w", "w", ".", "e", "l",
      "f", "e", "r", "s", "p", "o", "t", ".", "c", "o", "m", "/", "e", "n",
      "/", "c", "a", "r", "/", "a">>
URL_B ==
    <<"h", "t", "t", "p", "s", ":", "/", "/", "w", "w", "w", ".", "e", "l",
      "f", "e", "r", "s", "p", "o", "t", ".", "c", "o", "m", "/", "e", "n",
      "/", "c", "a", "r", "/", "b">>
URL_SHOP ==
    <<"h", "t", "t", "p", "s", ":", "/", "/", "w", "w", "w", ".", "e", "l",
      "f", "e", "r", "s", "p", "o", "t", ".", "c", "o", "m", "/", "e", "n",
      "/", "s", "h", "o", "p", "/", "s">>
TXT_1500_KM == <<"1", ",", "5", "0", "0", " ", "k", "m">>
TXT_12MI == <<"1", "2", "m", "i">>
TXT_COMMA_KM == <<",", " ", "k", "m">>
TXT_5000 == <<"5", "0", "0", "0">>
TXT_5_KM_UPPER == <<"5", " ", "K", "M">>
TXT_RESTORED ==
    <<"F", "u", "l", "l", "y", " ", "R", "e", "s", "t", "o", "r", "e", "d",
      ",", " ", "n", "e", "w", " ", "p", "a", "i", "n", "t">>
TXT_YES_PADDED == <<" ", "y", "e", "s", " ">>
TXT_UNKNOWN_PADDED == <<" ", "u", "n", "k", "n", "o", "w", "n", " ">>
TXT_PRICE == <<"a", "b", "c">>

(***************************************************************************)
(* Strings of the raw table: what str.strip, str.lower, str.contains and   *)
(* str.extract do on sequences of characters.                              *)
(***************************************************************************)
Digits == {"0", "1", "2", "3", "4", "5", "6", "7", "8", "9"}

DigitValue(c) ==
    CASE c = "0" -> 0 [] c = "1" -> 1 [] c = "2" -> 2 [] c = "3" -> 3 [] c = "4" -> 4
      [] c = "5" -> 5 [] c = "6" -> 6 [] c = "7" -> 7 [] c = "8" -> 8 [] c = "9" -> 9

IsSpace(c) == c \in {" ", "\t", "\n"}

UpperCase == <<"A", "B", "C", "D", "E", "F", "G", "H", "I", "J", "K", "L", "M",
               "N", "O", "P", "Q", "R", "S", "T", "U", "V", "W", "X", "Y", "Z">>

LowerCase == <<"a", "b", "c", "d", "e", "f", "g", "h", "i", "j", "k", "l", "m",
               "n", "o", "p", "q", "r", "s", "t", "u", "v", "w", "x", "y", "z">>

LowerChar(c) ==
    IF \E i \in 1..26 : UpperCase[i] = c
    THEN LowerCase[CHOOSE i \in 1..26 : UpperCase[i] = c]
    ELSE c

\* str.lower()
lower(s) == [i \in 1..Len(s) |-> LowerChar(s[i])]

SetMin(S) == CHOOSE x \in S : \A y \in S : x <= y
SetMax(S) == CHOOSE x \in S : \A y \in S : y <= x

\* str.strip()
strip(s) ==
    LET keep == {i \in 1..Len(s) : ~IsSpace(s[i])}
    IN  IF keep = {} THEN <<>> ELSE SubSeq(s, SetMin(keep), SetMax(keep))

\* re.search of a pattern of literal characters, "." matching any character
MatchesAt(s, i, pat) ==
    /\ i + Len(pat) - 1 <= Len(s)
    /\ \A k \in 1..Len(pat) : pat[k] = "." \/ s[i + k - 1] = pat[k]

contains(s, pat) == \E i \in 1..Len(s) : MatchesAt(s, i, pat)

(***************************************************************************)
(* Cells of a DataFrame: NaN, a text, a Number, a currency or series       *)
(* code (an atom: only compared), or no such column yet.                   *)
(***************************************************************************)
NaN == [t |-> "nan", s |-> <<>>, q |-> Zero]
Code(c) == [t |-> "code", s |-> <<c>>, q |-> Zero]
NoColumn == [t |-> "absent", s |-> <<>>, q |-> Zero]

\* pd.isna
isna(cell) == cell.t = "nan"

\* str(x) of a text or NaN cell
str(cell) == IF cell.t = "nan" THEN STR_NAN ELSE cell.s

\* Series.str.contains(pat, case=..., na=False) on one cell
StrContains(cell, pat, case) ==
    /\ cell.t = "text"
    /\ IF case THEN contains(cell.s, pat) ELSE contains(lower(cell.s), lower(pat))

\* the .str accessor exists only on an object column: one holding a text, or
\* a column of an empty table; a column read with nothing but empty cells is float64
ObjectColumn(table, col) == table = <<>> \/ \E i \in 1..Len(table) : table[i][col].t = "text"

(***************************************************************************)
(* bronze_to_silver.py: clean_mileage.                                     *)
(***************************************************************************)
IsNumChar(c) == c \in Digits \cup {","}

\* the end of the longest run of [\d,] that starts at i
RECURSIVE RunEnd(_, _)
RunEnd(s, i) == IF i < Len(s) /\ IsNumChar(s[i + 1]) THEN RunEnd(s, i + 1) ELSE i

\* \s* from position k
RECURSIVE SkipSpaces(_, _)
SkipSpaces(s, k) == IF k <= Len(s) /\ IsSpace(s[k]) THEN SkipSpaces(s, k + 1) ELSE k

\* (km|mi) at position k, or the empty string
UnitAt(s, k) ==
    IF k + 1 <= Len(s) /\ SubSeq(s, k, k + 1) \in {STR_KM, STR_MI}
    THEN SubSeq(s, k, k + 1)
    ELSE <<>>

\* ([\d,]+)\s*(km|mi) matches with its first group starting at i
MatchFrom(s, i) == IsNumChar(s[i]) /\ UnitAt(s, SkipSpaces(s, RunEnd(s, i) + 1)) # <<>>

\* lines 28-30: str.extract(r'([\d,]+)\s*(km|mi)') on one cell, the leftmost match
extract(cell) ==
    IF cell.t # "text" THEN <<NaN, NaN>>
    ELSE LET starts == {i \in 1..Len(cell.s) : MatchFrom(cell.s, i)}
         IN  IF starts = {} THEN <<NaN, NaN>>
             ELSE LET i == SetMin(starts)
                      e == RunEnd(cell.s, i)
                  IN  <<Text(SubSeq(cell.s, i, e)), Text(UnitAt(cell.s, SkipSpaces(cell.s, e + 1)))>>

RECURSIVE DigitsValue(_)
DigitsValue(s) ==
    IF s = <<>> THEN 0 ELSE 10 * DigitsValue(SubSeq(s, 1, Len(s) - 1)) + DigitValue(s[Len(s)])

\* float(s) for s made of digits: the empty string is a ValueError
ToFloat(s) == IF s = <<>> THEN Raise ELSE Ok(Rat(DigitsValue(s), 1))

IsComma(c) == c = ","

\* str.replace(",", "")
RemoveCommas(s) == SelectSeq(s, LAMBDA c : ~IsComma(c))

MILES_TO_KM == Rat(160934, 100000)

\* lines 28-36 without the "fully restored" rule of lines 33-36
MileageValueNoRestored(row) == extract(row.Mileage)[1]

\* lines 28-36: mileage_value of one row before the drop
MileageValue(row) ==
    LET mv == extract(row.Mileage)[1]
    IN  IF isna(mv) /\ StrContains(row.Condition, STR_FULLY_RESTORED, FALSE)
        THEN Text(<<"1">>)
        ELSE mv

\* line 42: mileage_unit of one row
MileageUnit(row) ==
    LET u == extract(row.Mileage)[2]
    IN  IF isna(u) \/ u.s = <<>> THEN STR_KM ELSE u.s

\* lines 45-48: the float value in km, or the exception of astype(float)
MileageKm(row) ==
    LET f == ToFloat(RemoveCommas(MileageValue(row).s))
    IN  IF f.exc THEN Raise
        ELSE IF MileageUnit(row) = STR_MI THEN Ok(RatMul(f.val, MILES_TO_KM))
        ELSE f

\* lines 23-54
clean_mileage(table, loaded) ==
    IF ~ObjectColumn(loaded, "Mileage") \/ ~ObjectColumn(loaded, "Condition") THEN Raise
    ELSE LET kept == SelectSeq(table, LAMBDA row : ~isna(MileageValue(row)))
         IN  IF \E i \in 1..Len(kept) : MileageKm(kept[i]).exc THEN Raise
             ELSE Ok([i \in 1..Len(kept) |->
                        [kept[i] EXCEPT !.mileage_value = Number(MileageKm(kept[i]).val),
                                        !.mileage_unit = Text(MileageUnit(kept[i])),
                                        !.Mileage_km = Number(MileageKm(kept[i]).val)]])

(***************************************************************************)
(* bronze_to_silver.py: clean_condition, create_derived_features,          *)
(* standardize_series, convert_prices_to_eur.                              *)
(***************************************************************************)
\* lines 62, 70, 74: the lambda
UnknownIfBlank(cell) ==
    IF isna(cell) \/ strip(str(cell)) = <<>> THEN Text(STR_Unknown) ELSE cell

\* line 66: the lambda
PtsFlag(cell) == IF lower(strip(str(cell))) = STR_YES THEN Number(One) ELSE Number(Zero)

\* lines 57-77
clean_condition(table) ==
    [i \in 1..Len(table) |->
        [table[i] EXCEPT !.Condition = UnknownIfBlank(@),
                         !.PTS = PtsFlag(@),
                         !.Matching = UnknownIfBlank(@),
                         !.Owners = UnknownIfBlank(@)]]

\* lines 84-86 comparing the value as it stands with "Unknown"
OwnersKnownLiteral(cell) == IF str(cell) = STR_Unknown THEN Number(Zero) ELSE Number(One)

\* lines 84-86: the lambda
OwnersKnown(cell) == IF lower(strip(str(cell))) = STR_UNKNOWN THEN Number(Zero) ELSE Number(One)

\* lines 88-90
IsFullyRestored(cell) ==
    IF StrContains(cell, STR_FULLY_RESTORED, FALSE) THEN Number(One) ELSE Number(Zero)

\* lines 80-92
create_derived_features(table) ==
    [i \in 1..Len(table) |->
        [table[i] EXCEPT !.owners_known = OwnersKnown(table[i].Owners),
                         !.is_fully_restored = IsFullyRestored(table[i].Condition)]]

\* lines 100-104
SeriesCode(cell) ==
    IF cell.t # "code" THEN cell
    ELSE CASE cell.s[1] = "982 (718 Boxster/Cayman)" -> Code("982")
           [] cell.s[1] = "987 (Boxster/Cayman)" -> Code("987")
           [] cell.s[1] = "981 (Boxster/Cayman)" -> Code("981")
           [] OTHER -> cell

\* lines 95-106
standardize_series(table) ==
    [i \in 1..Len(table) |-> [table[i] EXCEPT !.Series = SeriesCode(@)]]

\* lines 122-124: the lambda
PriceInEur(row, mapping) ==
    IF ~isna(row.price) /\ ~isna(row.currency)
    THEN convert_to_eur(row.price, row.currency.s[1], mapping)
    ELSE Ok(NaN)

\* lines 116-129, with the mapping of line 114
convert_prices_to_eur(table, mapping) ==
    IF \E i \in 1..Len(table) : PriceInEur(table[i], mapping).exc THEN Raise
    ELSE Ok([i \in 1..Len(table) |->
                [table[i] EXCEPT !.price_in_eur = PriceInEur(table[i], mapping).val]])

\* line 158 with keep='last'
DropDuplicatesKeepLast(table) ==
    SelectSeq(table, LAMBDA row :
        \A j \in 1..Len(table) : table[j].URL = row.URL => table[j].id <= row.id)

\* line 158: drop_duplicates(subset=['URL']) keeps the first row of each URL
drop_duplicates(table) ==
    LET first(i) == \A j \in 1..(i - 1) : table[j].URL # table[i].URL
        keep == {i \in 1..Len(table) : first(i)}
        RECURSIVE pick(_)
        pick(i) == IF i > Len(table) THEN <<>>
                   ELSE IF i \in keep THEN <<table[i]>> \o pick(i + 1) ELSE pick(i + 1)
    IN  pick(1)

\* lines 166-169
filter_shop_links(table, drop) ==
    IF drop
    THEN SelectSeq(table, LAMBDA row : ~StrContains(row.URL, STR_SHOP_PREFIX, TRUE))
    ELSE table

(***************************************************************************)
(* Raw tables.  Every expected column is present; the cells vary.          *)
(***************************************************************************)
RawRow(url, mileage, condition, owners, pts, matching, series, price, currency) ==
    [id |-> 0, URL |-> url, Mileage |-> mileage, Condition |-> condition,
     Owners |-> owners, PTS |-> pts, Matching |-> matching, Series |-> series,
     price |-> price, currency |-> currency,
     mileage_value |-> NoColumn, mileage_unit |-> NoColumn, Mileage_km |-> NoColumn,
     owners_known |-> NoColumn, is_fully_restored |-> NoColumn, price_in_eur |-> NoColumn]

\* a well-formed listing with the given mileage and condition
Listing(url, mileage, condition) ==
    RawRow(Text(url), mileage, condition, Text(<<"2">>), Text(STR_Yes), Text(STR_Yes),
           Code("911"), Number(Rat(100, 1)), Code("USD"))

MileageRows ==
    {Listing(URL_A, Text(m), Text(STR_Good)) :
        m \in {TXT_1500_KM, TXT_12MI, TXT_COMMA_KM, TXT_5000, TXT_5_KM_UPPER}}
    \cup {Listing(URL_A, NaN, Text(STR_Good)), Listing(URL_A, NaN, NaN),
          Listing(URL_A, Text(TXT_1500_KM), NaN)}
    \cup {Listing(URL_A, m, Text(TXT_RESTORED)) :
            m \in {NaN, Text(TXT_COMMA_KM), Text(TXT_5000)}}

UrlRows ==
    {Listing(URL_B, Text(TXT_1500_KM), Text(STR_Good)),
     Listing(URL_SHOP, Text(TXT_1500_KM), Text(STR_Good)),
     Listing(URL_SHOP, NaN, Text(TXT_RESTORED))}

OwnerRows ==
    {RawRow(Text(URL_A), Text(TXT_1500_KM), Text(STR_Good), o[1], o[2], o[3],
            Code("987 (Boxster/Cayman)"), Number(Rat(100, 1)), Code("USD")) :
        o \in {<<NaN, NaN, NaN>>,
               <<Text(<<" ">>), Text(TXT_YES_PADDED), Text(<<" ">>)>>,
               <<Text(STR_Unknown), Text(<<"N", "o">>), Text(STR_Unknown)>>,
               <<Text(TXT_UNKNOWN_PADDED), Text(STR_Yes), Text(STR_Yes)>>}}

PriceRows ==
    {RawRow(Text(URL_A), Text(TXT_1500_KM), Text(STR_Good), Text(<<"2">>), Text(STR_Yes),
            Text(STR_Yes), Code("911"), pc[1], pc[2]) :
        pc \in {<<NaN, Code("USD")>>, <<Number(Rat(100, 1)), NaN>>,
                <<Number(Rat(100, 1)), Code("EUR")>>, <<Number(Rat(100, 1)), Code("XXX")>>,
                <<Text(TXT_PRICE), Code("USD")>>, <<Text(TXT_PRICE), Code("EUR")>>}}

RawRows == MileageRows \cup UrlRows \cup OwnerRows \cup PriceRows

\* pd.read_excel: the rows in file order, labelled by their position
RawTables ==
    UNION {{[i \in 1..n |-> [t[i] EXCEPT !.id = i]] : t \in [1..n -> RawRows]} : n \in 0..MaxRows}

(***************************************************************************)
(* process_bronze_to_silver as a state machine: one action per step of     *)
(* lines 152-183.  stage names the last step done; "raised" ends a run     *)
(* whose step raised (nothing is saved then).                              *)
(***************************************************************************)
\* outcomes of the one fetch_latest_rates() call of a run (line 114)
RunResponses == {Failure("timeout"), Success(FullTable)}

CleanInit ==
    /\ RatesInit
    /\ conv = ConvIdle
    /\ RestIdle
    /\ stage = "loaded"
    /\ raw \in RawTables
    /\ df = raw
    /\ drop_shop_links \in BOOLEAN
    /\ run_rates = EmptyMap
    /\ run_fetch = NoFetches

Step(from, to, result) ==
    /\ stage = from
    /\ \E r \in {result} :
          /\ stage' = IF r.exc THEN "raised" ELSE to
          /\ df' = IF r.exc THEN df ELSE r.val
    /\ UNCHANGED <<raw, drop_shop_links>>

\* lines 156-163
DropDuplicates ==
    /\ Step("loaded", "deduplicated", Ok(drop_duplicates(df)))
    /\ UNCHANGED <<rateVars, conv, run_rates, run_fetch, restVars>>

\* lines 165-169
FilterShopLinks ==
    /\ Step("deduplicated", "filtered", Ok(filter_shop_links(df, drop_shop_links)))
    /\ UNCHANGED <<rateVars, conv, run_rates, run_fetch, restVars>>

\* line 172
CleanMileage ==
    /\ Step("filtered", "mileage", clean_mileage(df, raw))
    /\ UNCHANGED <<rateVars, conv, run_rates, run_fetch, restVars>>

\* line 173
CleanCondition ==
    /\ Step("mileage", "condition", Ok(clean_condition(df)))
    /\ UNCHANGED <<rateVars, conv, run_rates, run_fetch, restVars>>

\* line 174
StandardizeSeries ==
    /\ Step("condition", "series", Ok(standardize_series(df)))
    /\ UNCHANGED <<rateVars, conv, run_rates, run_fetch, restVars>>

\* line 175
CreateDerivedFeatures ==
    /\ Step("series", "derived", Ok(create_derived_features(df)))
    /\ UNCHANGED <<rateVars, conv, run_rates, run_fetch, restVars>>

\* line 176: convert_prices_to_eur(df) fetches the mapping once, then converts
ConvertPricesToEur(resp, wout) ==
    /\ stage = "derived"
    /\ \E f \in {fetch_latest_rates(TRUE, cache, now, resp, wout)} :
           /\ Step("derived", "priced", convert_prices_to_eur(df, f.ret))
           /\ run_rates' = f.ret
           /\ run_fetch' = [calls |-> run_fetch.calls + 1,
                            requests |-> run_fetch.requests + IF f.net THEN 1 ELSE 0]
           /\ cache' = f.file
    /\ UNCHANGED <<now, call, ticks, fetched, conv, restVars>>

\* lines 178-183
SaveSilver ==
    /\ Step("priced", "saved", Ok(df))
    /\ UNCHANGED <<rateVars, conv, run_rates, run_fetch, restVars>>

CleanNext ==
    \/ DropDuplicates
    \/ FilterShopLinks
    \/ CleanMileage
    \/ CleanCondition
    \/ StandardizeSeries
    \/ CreateDerivedFeatures
    \/ \E resp \in RunResponses : ConvertPricesToEur(resp, "ok")
    \/ SaveSilver

SpecClean == CleanInit /\ [][CleanNext]_vars

(***************************************************************************)
(* silver_to_gold.py.  Floats of the log transforms: np.log is taken to    *)
(* base 2 on prices that are powers of two (the natural log differs by the *)
(* factor ln 2, and the band test of remove_outliers is unchanged by a     *)
(* common factor on values, mean and std); log1p and the square of the     *)
(* mileage are kept as unevaluated terms.                                  *)
(***************************************************************************)
NegInf == [t |-> "-inf", s |-> <<>>, q |-> Zero]

\* the float f(q), not evaluated
Term(f, q) == [t |-> "term", s |-> <<f>>, q |-> q]

RECURSIVE Log2(_)
Log2(n) == IF n <= 1 THEN 0 ELSE 1 + Log2(n \div 2)

\* np.log of one cell: -inf at 0 and NaN below 0 (a RuntimeWarning, no exception)
np_log(cell) ==
    IF cell.t # "num" THEN NaN
    ELSE IF cell.q[1] = 0 THEN NegInf
    ELSE IF cell.q[1] < 0 THEN NaN
    ELSE Number(<<Log2(cell.q[1]) - Log2(cell.q[2]), 1>>)

RECURSIVE SumSeq(_)
SumSeq(xs) == IF xs = <<>> THEN Zero ELSE RatAdd(xs[1].q, SumSeq(Tail(xs)))

\* the cells a pandas reduction with skipna=True works on
NotNaN(xs) == SelectSeq(xs, LAMBDA x : ~isna(x))

\* Series.mean()
Mean(xs) ==
    LET ok == NotNaN(xs)
    IN  IF ok = <<>> THEN NaN
        ELSE IF \E i \in 1..Len(ok) : ok[i] = NegInf THEN NegInf
        ELSE Number(RatMul(SumSeq(ok), <<1, Len(ok)>>))

RECURSIVE SumSqDev(_, _)
SumSqDev(xs, m) ==
    IF xs = <<>> THEN Zero
    ELSE RatAdd(RatMul(RatSub(xs[1].q, m), RatSub(xs[1].q, m)), SumSqDev(Tail(xs), m))

\* the square of Series.std() (ddof = 1): NaN for fewer than two values and
\* when a value is -inf
Variance(xs) ==
    LET ok == NotNaN(xs)
    IN  IF Len(ok) < 2 THEN NaN
        ELSE IF \E i \in 1..Len(ok) : ok[i] = NegInf THEN NaN
        ELSE Number(RatMul(SumSqDev(ok, Mean(ok).q), <<1, Len(ok) - 1>>))

\* lines 37-38, 45-46: x >= mean - n_std * std and x <= mean + n_std * std, for
\* n_std >= 0, as (x - mean)^2 <= n_std^2 * std^2; False when a side is NaN
InBand(x, m, v, n_std) ==
    /\ x.t = "num" /\ m.t = "num" /\ v.t = "num"
    /\ ~RatLess(RatMul(RatMul(n_std, n_std), v.q), RatMul(RatSub(x.q, m.q), RatSub(x.q, m.q)))

\* lines 33, 36-38 and 44-46: the column the band is taken of
BandValues(table, column, use_log) ==
    [i \in 1..Len(table) |-> IF use_log THEN np_log(table[i][column]) ELSE table[i][column]]

\* lines 20-52; line 50 divides by the number of input rows
remove_outliers(table, column, n_std, use_log) ==
    LET xs == BandValues(table, column, use_log)
        mean_val == Mean(xs)
        var_val == Variance(xs)
        keep == {i \in 1..Len(table) : InBand(xs[i], mean_val, var_val, n_std)}
    IN  IF Len(table) = 0 THEN Raise
        ELSE Ok(SelectSeq(table, LAMBDA row : \E i \in keep : table[i].id = row.id))

HasColumn(cell) == cell.t # "absent"

\* lines 55-66
create_log_features(table) ==
    [i \in 1..Len(table) |->
        [table[i] EXCEPT
            !.log_price = IF HasColumn(table[i].price_in_eur) THEN np_log(table[i].price_in_eur)
                          ELSE @,
            !.log_mileage = IF ~HasColumn(table[i].Mileage_km) THEN @
                            ELSE IF table[i].Mileage_km.t = "num"
                                 THEN Term("log1p", table[i].Mileage_km.q) ELSE NaN,
            !.Mileage_sq = IF ~HasColumn(table[i].Mileage_km) THEN @
                           ELSE IF table[i].Mileage_km.t = "num"
                                THEN Term("square", table[i].Mileage_km.q) ELSE NaN]]

\* lines 78-94, in the order of the dict
model_mapping ==
    <<<<<<"9", "1", "1">>, "911">>,
      <<<<"9", "1", "2">>, "912">>,
      <<<<"9", "1", "4">>, "914">>,
      <<<<"9", "2", "4">>, "924">>,
      <<<<"9", "2", "8">>, "928">>,
      <<<<"9", "4", "4">>, "944">>,
      <<<<"9", "6", "8">>, "968">>,
      <<<<"B", "o", "x", "s", "t", "e", "r">>, "Boxster">>,
      <<<<"C", "a", "y", "m", "a", "n">>, "Cayman">>,
      <<<<"C", "a", "r", "r", "e", "r", "a", " ", "G", "T">>, "Supercar">>,
      <<<<"9", "1", "8">>, "Supercar">>,
      <<<<"C", "a", "y", "e", "n", "n", "e">>, "SUV">>,
      <<<<"M", "a", "c", "a", "n">>, "SUV">>,
      <<<<"P", "a", "n", "a", "m", "e", "r", "a">>, "Sedan">>,
      <<<<"T", "a", "y", "c", "a", "n">>, "Electric">>>>

RECURSIVE FirstCategory(_, _)
FirstCategory(model, k) ==
    IF k > Len(model_mapping) THEN "Other"
    ELSE IF contains(lower(model), lower(model_mapping[k][1])) THEN model_mapping[k][2]
    ELSE FirstCategory(model, k + 1)

\* lines 96-103
categorize_model(cell) == IF isna(cell) THEN Code("Other") ELSE Code(FirstCategory(cell.s, 1))

\* lines 69-108
create_model_categories(table) ==
    [i \in 1..Len(table) |->
        [table[i] EXCEPT !.model_category =
            IF HasColumn(table[i].Model) THEN categorize_model(table[i].Model) ELSE @]]

LOW_MILEAGE == 50000

\* lines 145 with <= in place of <
MileageBonusInclusive(cell) ==
    IF cell.t = "num" /\ ~RatLess(<<LOW_MILEAGE, 1>>, cell.q) THEN 10 ELSE 0

\* line 145: np.where(df['Mileage_km'] < 50000, 10, 0)
MileageBonus(cell) == IF cell.t = "num" /\ RatLess(cell.q, <<LOW_MILEAGE, 1>>) THEN 10 ELSE 0

\* an integer flag column times a weight; a NaN product is skipped by sum(axis=1)
Weighted(cell, w) == IF cell.t = "num" THEN cell.q[1] * w ELSE 0

\* lines 121-150: the components of one row, each counted when its column exists
RowScore(row) ==
      (IF HasColumn(row.Matching) /\ row.Matching # Text(STR_Unknown) THEN 10 ELSE 0)
    + (IF HasColumn(row.Owners) /\ row.Owners # Text(STR_Unknown) THEN 10 ELSE 0)
    + (IF HasColumn(row.Interior) /\ ~isna(row.Interior) THEN 5 ELSE 0)
    + (IF HasColumn(row.Exterior) /\ ~isna(row.Exterior) THEN 5 ELSE 0)
    + (IF HasColumn(row.PTS) THEN Weighted(row.PTS, 15) ELSE 0)
    + (IF HasColumn(row.is_fully_restored) THEN Weighted(row.is_fully_restored, 20) ELSE 0)
    + (IF HasColumn(row.Mileage_km) THEN MileageBonus(row.Mileage_km) ELSE 0)

\* lines 111-156; line 138, astype(int), raises on a NaN flag
calculate_listing_score(table) ==
    IF \E i \in 1..Len(table) : isna(table[i].PTS) THEN Raise
    ELSE Ok([i \in 1..Len(table) |->
                [table[i] EXCEPT !.listing_score = Number(<<RowScore(table[i]), 1>>)]])

\* line 167: pd.to_numeric(errors='coerce') of a float or empty cell
to_numeric(cell) == IF cell.t \in {"num", "absent"} THEN cell ELSE NaN

\* lines 171, 174: fillna('Unknown')
FillUnknown(cell) == IF isna(cell) THEN Text(STR_Unknown) ELSE cell

\* lines 159-176
prepare_modeling_features(table) ==
    [i \in 1..Len(table) |->
        [table[i] EXCEPT !.Mileage_km = to_numeric(@),
                         !.price_in_eur = to_numeric(@),
                         !.Interior = FillUnknown(@),
                         !.Exterior = FillUnknown(@)]]

\* line 206: dropna(subset=['price_in_eur'])
dropna(table) == SelectSeq(table, LAMBDA row : ~isna(row.price_in_eur))

(***************************************************************************)
(* Silver tables.                                                          *)
(***************************************************************************)
TXT_BLACK == <<"B", "l", "a", "c", "k">>
TXT_911_TURBO == <<"9", "1", "1", " ", "T", "u", "r", "b", "o">>
TXT_CARRERA_GT == <<"C", "a", "r", "r", "e", "r", "a", " ", "G", "T">>
TXT_356 == <<"3", "5", "6">>

GoldRow(price, mileage, matching, owners, interior, exterior, pts, restored, model) ==
    [id |-> 0, price_in_eur |-> price, Mileage_km |-> mileage, Matching |-> matching,
     Owners |-> owners, Interior |-> interior, Exterior |-> exterior, PTS |-> pts,
     is_fully_restored |-> restored, Model |-> model,
     log_price |-> NoColumn, log_mileage |-> NoColumn, Mileage_sq |-> NoColumn,
     model_category |-> NoColumn, listing_score |-> NoColumn]

\* the values the band is taken of: null, negative, zero and powers of two
BandPrices == {NaN, Number(Rat(-2, 1)), Number(Zero), Number(One), Number(Rat(2, 1)),
               Number(Rat(16, 1)), Number(Rat(64, 1))}

PricedRows ==
    {GoldRow(p, Number(Rat(1500, 1)), Text(STR_Yes), Text(<<"2">>), Text(TXT_BLACK),
             Text(TXT_BLACK), Number(One), Number(Zero), Text(TXT_911_TURBO)) : p \in BandPrices}

ScoredRows ==
    {GoldRow(Number(Rat(16, 1)), Number(Rat(1500, 1)), Text(STR_Yes), Text(<<"2">>),
             Text(TXT_BLACK), Text(TXT_BLACK), Number(One), Number(One), Text(TXT_911_TURBO)),
     GoldRow(Number(Rat(16, 1)), Number(Rat(50000, 1)), Text(STR_Unknown), Text(STR_Unknown),
             NaN, NaN, Number(Zero), Number(Zero), NaN),
     GoldRow(Number(Rat(16, 1)), Number(Rat(49999, 1)), Text(STR_Yes), Text(TXT_UNKNOWN_PADDED),
             NaN, Text(TXT_BLACK), Number(Zero), Number(One), Text(TXT_CARRERA_GT)),
     GoldRow(Number(Rat(16, 1)), Number(Rat(60000, 1)), Text(STR_Unknown), Text(<<"2">>),
             Text(TXT_BLACK), NaN, Number(One), Number(Zero), Text(TXT_356))}

\* the columns a Silver table may lack
OptionalColumns ==
    {"Mileage_km", "Matching", "Owners", "Interior", "Exterior", "PTS", "is_fully_restored",
     "Model"}

Schemas == {OptionalColumns, {}, {"Mileage_km", "PTS", "Interior"}}

WithColumns(row, columns) ==
    [c \in DOMAIN row |-> IF c \in OptionalColumns \ columns THEN NoColumn ELSE row[c]]

\* pd.read_excel: the rows in file order, labelled by their position
Labelled(t) == [i \in 1..Len(t) |-> [t[i] EXCEPT !.id = i]]

SilverTables ==
    UNION {{Labelled(t) : t \in [1..n -> PricedRows]} : n \in 0..MaxGoldRows}
    \cup UNION {{Labelled([i \in 1..n |-> WithColumns(t[i], columns)]) :
                    t \in [1..n -> ScoredRows], columns \in Schemas} : n \in 1..MaxGoldRows}

(***************************************************************************)
(* process_silver_to_gold as a state machine: one action per step of lines *)
(* 201-224.  gold_stage names the last step done; "raised" ends a run      *)
(* whose step raised (nothing is saved then).                              *)
(***************************************************************************)
OutlierStds == {Rat(1, 1), Rat(3, 1)}

GoldInit ==
    /\ RatesInit
    /\ conv = ConvIdle
    /\ CleanIdle
    /\ band = NoBand
    /\ RaceIdle
    /\ gold_stage = "loaded"
    /\ silver \in SilverTables
    /\ gold = silver
    /\ remove_price_outliers \in BOOLEAN
    /\ outlier_std \in OutlierStds

GoldStep(from, to, result) ==
    /\ gold_stage = from
    /\ \E r \in {result} :
          /\ gold_stage' = IF r.exc THEN "raised" ELSE to
          /\ gold' = IF r.exc THEN gold ELSE r.val
    /\ UNCHANGED <<silver, remove_price_outliers, outlier_std>>
    /\ UNCHANGED <<rateVars, conv, cleanVars, band, raceVars>>

\* line 206
DropMissingPrices == GoldStep("loaded", "priced", Ok(dropna(gold)))

\* lines 210-211
RemovePriceOutliers ==
    GoldStep("priced", "banded",
             IF remove_price_outliers
             THEN remove_outliers(gold, "price_in_eur", outlier_std, TRUE)
             ELSE Ok(gold))

\* line 214
CreateLogFeatures == GoldStep("banded", "logged", Ok(create_log_features(gold)))

\* line 215
CreateModelCategories == GoldStep("logged", "categorized", Ok(create_model_categories(gold)))

\* line 216
CalculateListingScore == GoldStep("categorized", "scored", calculate_listing_score(gold))

\* line 217
PrepareModelingFeatures == GoldStep("scored", "prepared", Ok(prepare_modeling_features(gold)))

\* lines 219-224
SaveGold == GoldStep("prepared", "saved", Ok(gold))

GoldNext ==
    \/ DropMissingPrices
    \/ RemovePriceOutliers
    \/ CreateLogFeatures
    \/ CreateModelCategories
    \/ CalculateListingScore
    \/ PrepareModelingFeatures
    \/ SaveGold

SpecGold == GoldInit /\ [][GoldNext]_vars

(***************************************************************************)
(* remove_outliers called on its own.                                      *)
(***************************************************************************)
BandStds == {Rat(1, 2), Rat(1, 1), Rat(3, 1)}

BandTables == UNION {{Labelled(t) : t \in [1..n -> PricedRows]} : n \in 0..MaxGoldRows}

BandInit ==
    /\ RatesInit
    /\ conv = ConvIdle
    /\ CleanIdle
    /\ GoldIdle
    /\ RaceIdle
    /\ band \in {[NoBand EXCEPT !.table = t, !.n_std = n, !.use_log = u] :
                    t \in BandTables, n \in BandStds, u \in BOOLEAN}

\* lines 20-52 on column price_in_eur
RemoveOutliers ==
    /\ ~band.done
    /\ \E r \in {remove_outliers(band.table, "price_in_eur", band.n_std, band.use_log)} :
          band' = [band EXCEPT !.done = TRUE, !.raised = r.exc,
                               !.out = IF r.exc THEN <<>> ELSE r.val]
    /\ UNCHANGED <<rateVars, conv, cleanVars, goldVars, raceVars>>

BandNext == RemoveOutliers

SpecOutliers == BandInit /\ [][BandNext]_vars

(***************************************************************************)
(* exchange_rates.py: two runs of fetch_latest_rates() sharing the cache   *)
(* file.  The file is a sequence of bytes; open(cache_path, 'w') truncates *)
(* it, and the text of json.dump, small enough to stay in the buffer,      *)
(* reaches the file in one write at offset 0 when the with block closes    *)
(* it.  A byte is named by the document it comes from and its position in  *)
(* it; the length of a document is counted in units, one per digit of ts   *)
(* and one per rate.                                                       *)
(***************************************************************************)
Runs == {1, 2}

RECURSIVE DecimalDigits(_)
DecimalDigits(n) == IF n < 10 THEN 1 ELSE 1 + DecimalDigits(n \div 10)

Size(ts, rates) == DecimalDigits(ts) + Cardinality(DOMAIN rates)

\* line 49: the text of json.dump({'ts': ts, 'rates': rates})
Document(ts, rates) ==
    [i \in 1..Size(ts, rates) |-> [ts |-> ts, rates |-> rates, pos |-> i]]

\* a write of text at offset 0 of a file that holds old
Overwrite(old, text) == text \o SubSeq(old, Len(text) + 1, Len(old))

\* lines 32-34: exists(), open, json.load of the bytes
Parse(d) ==
    IF ~d.exists THEN NoFile
    ELSE IF d.bytes = <<>> THEN CorruptFile
    ELSE IF d.bytes = Document(d.bytes[1].ts, d.bytes[1].rates)
         THEN CacheFile(d.bytes[1].ts, d.bytes[1].rates)
    ELSE CorruptFile

RaceResponses == {Failure("timeout"), Success(FullTable), Success(EmptyMap)}

NewRun ==
    [pc |-> "load", saw |-> "none", rates |-> EmptyMap, ret |-> EmptyMap, source |-> "none"]

RaceInit ==
    /\ RatesInit
    /\ conv = ConvIdle
    /\ CleanIdle
    /\ GoldIdle
    /\ band = NoBand
    /\ disk = NoDisk
    /\ runs = [p \in Runs |-> NewRun]
    /\ dumped = <<>>

\* lines 79-83: the cache-first read
LoadCache(p) ==
    /\ runs[p].pc = "load"
    /\ \E cached \in {_load_cache(Parse(disk), now)} :
          runs' = [runs EXCEPT ![p] =
                      IF cached.val # EmptyMap
                      THEN [@ EXCEPT !.pc = "done", !.saw = Parse(disk).kind,
                                     !.ret = cached.val, !.source = "cache_first"]
                      ELSE [@ EXCEPT !.pc = "request", !.saw = Parse(disk).kind]]
    /\ UNCHANGED <<rateVars, conv, cleanVars, goldVars, band, disk, dumped>>

\* lines 85-99 and 105-113: the request; on failure the except branch reads
\* the file again
Request(p, resp) ==
    /\ runs[p].pc = "request"
    /\ \E r \in {FetchFromNetwork(Parse(disk), now, resp, "ok")} :
          runs' = [runs EXCEPT ![p] =
                      IF r.source = "network"
                      THEN [@ EXCEPT !.pc = "open", !.rates = r.ret]
                      ELSE [@ EXCEPT !.pc = "done", !.ret = r.ret, !.source = r.source]]
    /\ UNCHANGED <<rateVars, conv, cleanVars, goldVars, band, disk, dumped>>

\* line 48: open(cache_path, 'w') creates or truncates the file
OpenForWrite(p) ==
    /\ runs[p].pc = "open"
    /\ disk' = [exists |-> TRUE, bytes |-> <<>>]
    /\ cache' = Parse(disk')
    /\ runs' = [runs EXCEPT ![p].pc = "dump"]
    /\ UNCHANGED <<now, call, ticks, fetched, conv, cleanVars, goldVars, band, dumped>>

\* lines 49 and 101-103: json.dump, the close that writes the text, the return
Dump(p) ==
    /\ runs[p].pc = "dump"
    /\ disk' = [disk EXCEPT !.bytes = Overwrite(@, Document(now, runs[p].rates))]
    /\ cache' = Parse(disk')
    /\ dumped' = Append(dumped, [run |-> p, ts |-> now, rates |-> runs[p].rates])
    /\ runs' = [runs EXCEPT ![p] = [@ EXCEPT !.pc = "done", !.ret = runs[p].rates,
                                             !.source = "network"]]
    /\ UNCHANGED <<now, call, ticks, fetched, conv, cleanVars, goldVars, band>>

\* time passes between the steps of the runs
RaceTick(d) ==
    /\ ticks < MaxTicks
    /\ now' = now + d
    /\ ticks' = ticks + 1
    /\ UNCHANGED <<cache, call, fetched, conv, cleanVars, goldVars, band, raceVars>>

RaceNext ==
    \/ \E p \in Runs : LoadCache(p)
    \/ \E p \in Runs : \E resp \in RaceResponses : Request(p, resp)
    \/ \E p \in Runs : OpenForWrite(p)
    \/ \E p \in Runs : Dump(p)
    \/ \E d \in {1, 9} : RaceTick(d)

SpecRace == RaceInit /\ [][RaceNext]_vars

(***************************************************************************)
(* Properties of the rate provider (checked under SpecRates).              *)
(***************************************************************************)
\* the last call went to the network and the fetch failed
FetchFailed == call.done /\ call.net /\ call.source # "network"

\* a rate the conversion can use: present, a number, not zero
UsableRate(table, c) == c \in DOMAIN table /\ table[c].t = "num" /\ table[c].v # Zero

IsRational(q) == q \in Int \X Int /\ q[2] > 0

IsRateMapping(m) == DOMAIN m # {} /\ \A c \in DOMAIN m : IsRational(m[c])

\* C1: when the network fetch fails and a readable cache file exists, the call
\* returns the mapping stored in that file whatever its age.
C1_StaleCacheReturned ==
    (FetchFailed /\ call.before.kind = "ok")
        => (call.source = "cache" /\ call.ret = call.before.rates)

\* C2 (as claimed): a 2xx response lacking a usable rate for a requested symbol
\* is treated as a fetch failure: the call falls back and leaves the cache file
\* alone.
C2_UnusableRateIsFailure ==
    (/\ call.done /\ call.net /\ call.resp.kind = "ok"
     /\ \E c \in DefaultSymbols : ~UsableRate(call.resp.rates, c))
        => (call.source \in {"cache", "static"} /\ cache = call.before)

\* C2 (amended): a 2xx response whose values are numbers or nulls and which
\* lacks a usable rate for a requested symbol is not a failure: the call returns
\* the mapping built from the response (EUR 1.0, the inverse of each usable
\* rate, the static multiplier or 1.0 for a null or zero rate, nothing for a
\* missing symbol) and that mapping is what a successful write stores.
C2_UnusableRateSubstituted ==
    (/\ call.done /\ call.net /\ call.resp.kind = "ok"
     /\ \A c \in DOMAIN call.resp.rates : call.resp.rates[c].t \in {"num", "null"}
     /\ \E c \in DefaultSymbols : ~UsableRate(call.resp.rates, c))
        => /\ call.source = "network"
           /\ DOMAIN call.ret = DOMAIN call.resp.rates \cup {"EUR"}
           /\ call.ret["EUR"] = <<1, 1>>
           /\ \A c \in DOMAIN call.resp.rates \ {"EUR"} :
                IF UsableRate(call.resp.rates, c)
                THEN RatMul(call.ret[c], call.resp.rates[c].v) = <<1, 1>>
                ELSE call.ret[c] =
                        IF c \in DOMAIN STATIC_FALLBACK THEN STATIC_FALLBACK[c] ELSE <<1, 1>>
           /\ (call.wrote = "ok" => cache = CacheFile(now, call.ret))

C2_ZeroRateSubstituted ==
    /\ call.done /\ call.resp = Success(ZeroTable) /\ call.source = "network"
    /\ call.ret["USD"] = <<8779, 10000>>
    /\ "JPY" \in DOMAIN call.ret
    /\ cache.kind = "ok" /\ cache.rates = call.ret

\* C3: with use_cache, a parseable cache file younger than the TTL is returned
\* as it is, with no network call and no rewrite; a file of age >= TTL, or
\* use_cache = false, leads to a network attempt.
C3_CacheFirst ==
    call.done =>
        /\ (call.use_cache /\ call.before.kind = "ok"
                /\ now - call.before.ts < 24 * 3600)
              => (call.ret = call.before.rates /\ ~call.net /\ cache = call.before)
        /\ (~call.use_cache
                \/ (call.before.kind = "ok" /\ now - call.before.ts >= 24 * 3600))
              => call.net

C3_FreshAtBoundary ==
    /\ call.done /\ call.use_cache /\ call.before.kind = "ok"
    /\ now - call.before.ts = 24 * 3600 - 1
    /\ ~call.net /\ call.ret = call.before.rates

C5_StaticFallback ==
    (FetchFailed /\ call.before.kind = "absent")
        => /\ call.ret = [c \in {"EUR", "USD", "GBP", "JPY", "CHF"} |->
                            CASE c = "EUR" -> <<1, 1>>
                              [] c = "USD" -> <<8779, 10000>>
                              [] c = "GBP" -> <<1187, 1000>>
                              [] c = "JPY" -> <<1519, 250000>>
                              [] c = "CHF" -> <<533, 500>>]
           /\ cache.kind = "absent"

C5_StaticReturned ==
    /\ FetchFailed /\ call.before.kind = "absent" /\ call.resp.kind = "timeout"
    /\ call.source = "static" /\ call.ret["EUR"] = <<1, 1>> /\ cache = NoFile

\* C6: whatever the cache state and the network outcome, the call returns a
\* rate mapping; no exception escapes.
C6_NeverRaises ==
    call.done => (call.source # "raised" /\ IsRateMapping(call.ret))

C6_CorruptCacheAndBadBody ==
    /\ call.done /\ call.use_cache /\ call.before.kind = "corrupt"
    /\ call.resp.kind = "bad_json" /\ call.source = "static"
    /\ IsRateMapping(call.ret)

\* C7: starting without a cache file, every returned mapping and every mapping
\* stored in the cache file has EUR -> 1.0.
C7_EurAlwaysOne ==
    /\ call.done => ("EUR" \in DOMAIN call.ret /\ call.ret["EUR"] = <<1, 1>>)
    /\ cache.kind = "ok" => ("EUR" \in DOMAIN cache.rates /\ cache.rates["EUR"] = <<1, 1>>)

C7_ServiceEurOverridden ==
    /\ call.done /\ call.resp = Success(ExtraTable)
    /\ call.resp.rates["EUR"].v = <<2, 1>>
    /\ call.ret["EUR"] = <<1, 1>>
    /\ cache.kind = "ok" /\ cache.rates["EUR"] = <<1, 1>>

(***************************************************************************)
(* Properties of the converter (checked under SpecConvert).                *)
(***************************************************************************)
\* C8: convert_to_eur returns the amount unchanged for EUR whatever the mapping
\* says about EUR; otherwise amount times the mapping's entry, else the static
\* table's entry, else 1.0; it never raises for a numeric amount.
C8_ConvertToEur ==
    (conv.done /\ conv.given /\ conv.amount.t = "num") =>
        /\ ~conv.raised
        /\ conv.out.t = "num"
        /\ conv.out.q =
             IF conv.currency = "EUR" THEN conv.amount.q
             ELSE IF conv.currency \in DOMAIN conv.rates
                  THEN RatMul(conv.amount.q, conv.rates[conv.currency])
             ELSE IF conv.currency \in DOMAIN STATIC_FALLBACK
                  THEN RatMul(conv.amount.q, STATIC_FALLBACK[conv.currency])
             ELSE conv.amount.q

C8_EurBypassesMapping ==
    /\ conv.done /\ conv.given /\ conv.currency = "EUR"
    /\ "EUR" \in DOMAIN conv.rates /\ conv.rates["EUR"] = <<2, 1>>
    /\ conv.amount.q = <<100, 1>> /\ conv.out.t = "num" /\ conv.out.q = <<100, 1>> /\ ~conv.raised

(***************************************************************************)
(* Properties of the record cleaner (checked under SpecClean).             *)
(***************************************************************************)
\* the text holds a run of digits and commas, then optional white space, then km or mi
HasNumberWithUnit(cell) ==
    /\ cell.t = "text"
    /\ \E i \in 1..Len(cell.s) : \E j \in i..Len(cell.s) : \E k \in (j + 1)..(Len(cell.s) - 1) :
          /\ \A x \in i..j : cell.s[x] \in Digits \cup {","}
          /\ \A x \in (j + 1)..(k - 1) : cell.s[x] \in {" ", "\t", "\n"}
          /\ <<cell.s[k], cell.s[k + 1]>> \in {<<"k", "m">>, <<"m", "i">>}

\* the text holds "fully restored" in any letter case
SaysFullyRestored(cell) ==
    /\ cell.t = "text"
    /\ \E i \in 1..Len(cell.s) :
          /\ i + 13 <= Len(cell.s)
          /\ [k \in 1..14 |-> LowerChar(cell.s[i + k - 1])]
                = <<"f", "u", "l", "l", "y", " ", "r", "e", "s", "t", "o", "r", "e", "d">>

\* the raw row at position i is the first with its URL and passes the shop-link filter
SurvivesFilters(i) ==
    /\ \A j \in 1..(i - 1) : raw[j].URL.s # raw[i].URL.s
    /\ drop_shop_links => ~StrContains(raw[i].URL, STR_SHOP_PREFIX, TRUE)

InOutput(i) == \E k \in 1..Len(df) : df[k].id = i

\* C9: whatever the cells of a raw table with the expected columns hold, no
\* step of the Raw -> Cleaned run raises.
C9_CleanerNeverRaises == stage # "raised"

HasNumericToken(cell) == cell.t = "text" /\ \E i \in 1..Len(cell.s) : cell.s[i] \in Digits

\* the text holds km or mi, in any letter case
HasUnitToken(cell) ==
    /\ cell.t = "text"
    /\ \E i \in 1..(Len(cell.s) - 1) :
          <<LowerChar(cell.s[i]), LowerChar(cell.s[i + 1])>> \in {<<"k", "m">>, <<"m", "i">>}

\* the number written by the digits of the text (thousands separators skipped)
TokenValue(cell) == DigitsValue(SelectSeq(cell.s, LAMBDA c : c \in Digits))

\* C11: a raw row that survives deduplication and the shop-link filter and
\* whose mileage text holds a numeric token but no km or mi is in the Cleaned
\* output with mileage_unit = km and Mileage_km equal to the parsed number.
C11_UnitlessDefaultsToKm ==
    stage = "saved" =>
        \A i \in 1..Len(raw) :
            (/\ SurvivesFilters(i)
             /\ HasNumericToken(raw[i].Mileage)
             /\ ~HasUnitToken(raw[i].Mileage))
                => \E k \in 1..Len(df) :
                      /\ df[k].id = i
                      /\ df[k].mileage_unit = Text(<<"k", "m">>)
                      /\ df[k].Mileage_km = Number(<<TokenValue(raw[i].Mileage), 1>>)

\* C12: from deduplication on, the URLs of the rows of the table are pairwise
\* distinct and each row is the first raw row with its URL (with that URL
\* unchanged); so a later duplicate is never in the Cleaned output, also when
\* the first occurrence is dropped by the shop-link filter or for its mileage.
C12_DedupInvariant ==
    stage # "loaded" =>
        /\ \A k \in 1..Len(df) : \A l \in 1..Len(df) : k # l => df[k].URL # df[l].URL
        /\ \A k \in 1..Len(df) :
              /\ df[k].id \in 1..Len(raw)
              /\ df[k].URL = raw[df[k].id].URL
              /\ \A j \in 1..(df[k].id - 1) : raw[j].URL # df[k].URL

C12_LaterDuplicateNeverKept ==
    /\ stage = "saved"
    /\ Len(raw) = 2 /\ raw[1].URL = raw[2].URL
    /\ ~HasNumberWithUnit(raw[1].Mileage) /\ ~SaysFullyRestored(raw[1].Condition)
    /\ HasNumberWithUnit(raw[2].Mileage)
    /\ df = <<>>

\* the conversion step of the run has been executed
ConversionDone == run_fetch.calls > 0

\* C13: in a run that reaches the price conversion, the mapping is obtained
\* once (one call, at most one network request), the step does not fail, and
\* every row's price_in_eur is null when price or currency is null or the
\* price cannot be converted (it is not a number), and otherwise the price
\* for EUR, else the price times the run's one mapping's rate (the static
\* rate, else 1.0, for a currency the mapping lacks).
C13_PriceConversion ==
    ConversionDone =>
        /\ run_fetch.calls = 1 /\ run_fetch.requests <= 1
        /\ stage \in {"priced", "saved"}
        /\ \A k \in 1..Len(df) :
              df[k].price_in_eur =
                  IF df[k].price.t # "num" \/ df[k].currency.t # "code" THEN NaN
                  ELSE IF df[k].currency.s[1] = "EUR" THEN df[k].price
                  ELSE IF df[k].currency.s[1] \in DOMAIN run_rates
                       THEN Number(RatMul(df[k].price.q, run_rates[df[k].currency.s[1]]))
                  ELSE IF df[k].currency.s[1] \in DOMAIN STATIC_FALLBACK
                       THEN Number(RatMul(df[k].price.q, STATIC_FALLBACK[df[k].currency.s[1]]))
                  ELSE df[k].price

\* the owners field after null/blank normalization
NormalizedOwners(cell) ==
    IF cell.t = "nan" \/ \A i \in 1..Len(cell.s) : cell.s[i] \in {" ", "\t", "\n"}
    THEN <<"U", "n", "k", "n", "o", "w", "n">>
    ELSE cell.s

\* the text without its leading and trailing white space, in lower case
Folded(s) ==
    LET inked == {i \in 1..Len(s) : s[i] \notin {" ", "\t", "\n"}}
    IN  IF inked = {} THEN <<>>
        ELSE [k \in 1..(SetMax(inked) - SetMin(inked) + 1) |-> LowerChar(s[SetMin(inked) + k - 1])]

\* C15 (as claimed): owners_known = 0 iff the normalized owners field is the
\* literal "Unknown"; 1 for every other value, also one that differs from
\* "Unknown" only in letter case or surrounding white space.
C15_OwnersKnownLiteralOnly ==
    stage = "saved" =>
        \A k \in 1..Len(df) :
            /\ df[k].owners_known \in {Number(<<0, 1>>), Number(<<1, 1>>)}
            /\ df[k].owners_known = Number(<<0, 1>>)
                  <=> NormalizedOwners(raw[df[k].id].Owners) = <<"U", "n", "k", "n", "o", "w", "n">>

\* C15 (amended): owners_known = 0 iff the normalized owners field, with
\* surrounding white space removed and letters lower-cased, is "unknown";
\* 1 otherwise.
C15_OwnersKnownFolded ==
    stage = "saved" =>
        \A k \in 1..Len(df) :
            /\ df[k].owners_known \in {Number(<<0, 1>>), Number(<<1, 1>>)}
            /\ df[k].Owners.s = NormalizedOwners(raw[df[k].id].Owners)
            /\ df[k].owners_known = Number(<<0, 1>>)
                  <=> Folded(NormalizedOwners(raw[df[k].id].Owners))
                          = <<"u", "n", "k", "n", "o", "w", "n">>

C15_PaddedUnknownIsZero ==
    /\ stage = "saved"
    /\ \E k \in 1..Len(df) :
          /\ raw[df[k].id].Owners.s = <<" ", "u", "n", "k", "n", "o", "w", "n", " ">>
          /\ df[k].Owners = raw[df[k].id].Owners
          /\ df[k].owners_known = Number(<<0, 1>>)
    /\ \E k \in 1..Len(df) :
          /\ raw[df[k].id].Owners.s = <<"2">>
          /\ df[k].owners_known = Number(<<1, 1>>)

(***************************************************************************)
(* Properties of the Silver -> Gold run (checked under SpecGold).          *)
(***************************************************************************)
\* the Silver row has a price that is zero or negative
NonPositivePrice(row) == row.price_in_eur.t = "num" /\ row.price_in_eur.q[1] <= 0

\* C14: a run whose input has a row with a non-null price_in_eur <= 0 (a row
\* that reaches the log transforms) never saves a Gold table.
C14_NonPositivePriceFatal ==
    (\E i \in 1..Len(silver) : NonPositivePrice(silver[i])) => gold_stage # "saved"

\* the scoring step has been executed
Scored == gold_stage \in {"scored", "prepared", "saved"}

\* the run raised after the log features were made (so in the scoring step)
ScoringFailed ==
    /\ gold_stage = "raised"
    /\ \E k \in 1..Len(gold) : gold[k].model_category.t # "absent" \/ gold[k].log_price.t # "absent"

\* the text cell differs from "Unknown"
Known(cell) == cell.t = "text" /\ cell.s # <<"U", "n", "k", "n", "o", "w", "n">>

\* w when the signal's column exists and the signal holds, else 0
Signal(cell, holds, w) == IF cell.t # "absent" /\ holds THEN w ELSE 0

\* C16: after scoring, every row's listing_score is the integer sum, over the
\* signals whose column is in the Silver table, of 10 (matching numbers not
\* "Unknown"), 10 (owners not "Unknown"), 5 (interior color not null in the
\* Silver table), 5 (exterior color not null), 15 (PTS = 1), 20
\* (is_fully_restored = 1), 10 (Mileage_km < 50000); it is >= 0, it is 0 when
\* no signal column exists, and the scoring step never fails.
C16_ListingScore ==
    /\ ~ScoringFailed
    /\ Scored =>
        \A k \in 1..Len(gold) :
            LET r == silver[gold[k].id]
            IN  /\ gold[k].listing_score.t = "num"
                /\ gold[k].listing_score.q[2] = 1
                /\ gold[k].listing_score.q[1] >= 0
                /\ gold[k].listing_score.q[1] =
                        Signal(r.Matching, Known(r.Matching), 10)
                      + Signal(r.Owners, Known(r.Owners), 10)
                      + Signal(r.Interior, r.Interior.t # "nan", 5)
                      + Signal(r.Exterior, r.Exterior.t # "nan", 5)
                      + Signal(r.PTS, r.PTS.q = <<1, 1>>, 15)
                      + Signal(r.is_fully_restored, r.is_fully_restored.q = <<1, 1>>, 20)
                      + Signal(r.Mileage_km, r.Mileage_km.q[1] < 50000 * r.Mileage_km.q[2], 10)

C16_PartialSchemaScored ==
    /\ gold_stage = "saved"
    /\ Len(gold) = 3
    /\ \A k \in 1..3 : gold[k].Matching.t = "absent" /\ gold[k].Exterior.t = "absent"
    /\ gold[1].Mileage_km.q = <<1500, 1>> /\ gold[1].PTS.q = <<1, 1>>
    /\ silver[gold[1].id].Interior.t = "text" /\ gold[1].listing_score.q = <<30, 1>>
    /\ gold[2].Mileage_km.q = <<50000, 1>> /\ gold[2].listing_score.q = <<0, 1>>
    /\ gold[3].Mileage_km.q = <<49999, 1>> /\ silver[gold[3].id].Interior.t = "nan"
    /\ gold[3].Interior.t = "text" /\ gold[3].listing_score.q = <<10, 1>>

\* the Silver rows that remain after the rows with a null price are dropped
Priced == {i \in 1..Len(silver) : silver[i].price_in_eur.t # "nan"}

\* C19: with outlier removal enabled, a run whose table, after the rows with a
\* null price are dropped, is empty or is one row with a positive price does
\* not raise, and in the one-row case the saved table holds that row.
C19_DegenerateInputCompletes ==
    (/\ remove_price_outliers
     /\ \/ Priced = {}
        \/ /\ Cardinality(Priced) = 1
           /\ \A i \in Priced : silver[i].price_in_eur.q[1] > 0)
        => /\ gold_stage # "raised"
           /\ (gold_stage = "saved" /\ Priced # {})
                 => \E k \in 1..Len(gold) : gold[k].id \in Priced

(***************************************************************************)
(* Properties of remove_outliers (checked under SpecOutliers).             *)
(***************************************************************************)
\* the values the band is taken of: the column, or its log
BandInput == BandValues(band.table, "price_in_eur", band.use_log)

RECURSIVE SumTo(_, _)
SumTo(f, n) == IF n = 0 THEN 0 ELSE f[n] + SumTo(f, n - 1)

\* the input rows whose value is a number (their values are integers here)
Finite == {i \in 1..Len(band.table) : BandInput[i].t = "num"}

BandInt == [i \in 1..Len(band.table) |-> IF i \in Finite THEN BandInput[i].q[1] ELSE 0]

\* N times the deviation of row i from the mean of the N finite values
Deviation(i) == Cardinality(Finite) * BandInt[i] - SumTo(BandInt, Len(band.table))

SumSquares ==
    SumTo([i \in 1..Len(band.table) |-> IF i \in Finite THEN Deviation(i) * Deviation(i) ELSE 0],
          Len(band.table))

\* input row i lies in [mean - n_std * std, mean + n_std * std], with mean and
\* sample standard deviation taken once over the non-null values of all input
\* rows: |x - mean| <= n_std * std, squared and cleared of denominators.  No
\* row lies in a band whose mean or std is undefined.
LiesInBand(i) ==
    /\ i \in Finite
    /\ Cardinality(Finite) >= 2
    /\ \A j \in 1..Len(band.table) : BandInput[j].t # "-inf"
    /\ Deviation(i) * Deviation(i) * (Cardinality(Finite) - 1) * band.n_std[2] * band.n_std[2]
          <= band.n_std[1] * band.n_std[1] * SumSquares

\* C17: remove_outliers returns, in their order and with their columns
\* unchanged, exactly the input rows whose (log-)value lies in the band
\* computed once from the whole input.
C17_OutlierBand ==
    band.done =>
        /\ ~band.raised
        /\ \A i \in 1..Len(band.table) :
              (\E k \in 1..Len(band.out) : band.out[k].id = i) <=> LiesInBand(i)
        /\ \A k \in 1..Len(band.out) : band.out[k] = band.table[band.out[k].id]
        /\ \A k \in 1..Len(band.out) : \A l \in 1..Len(band.out) :
              k < l => band.out[k].id < band.out[l].id

(***************************************************************************)
(* Properties of concurrent runs of the rate provider (checked under       *)
(* SpecRace).                                                              *)
(***************************************************************************)
\* a run is between its open and its write of the file
WriterActive == \E p \in Runs : runs[p].pc = "dump"

\* the mappings that runs have written
WrittenMappings == {dumped[k].rates : k \in 1..Len(dumped)}

\* a run that found the file unparseable did not use it, and what a run returns
\* from the file is a mapping that some run wrote as a whole
NeverPartial ==
    \A p \in Runs :
        /\ runs[p].saw = "corrupt" => runs[p].source # "cache_first"
        /\ runs[p].source \in {"cache_first", "cache"} => runs[p].ret \in WrittenMappings

\* C18: a run that finds the file unparseable (also one a concurrent run has
\* truncated and not yet written) ignores it and goes to the network, no run
\* returns a partial mapping, and once no writer is in the middle of a write
\* the file holds, whole, the timestamp and mapping of the last run that wrote.
C18_LastWriterWins ==
    /\ NeverPartial
    /\ (dumped # <<>> /\ ~WriterActive)
          => Parse(disk) = CacheFile(dumped[Len(dumped)].ts, dumped[Len(dumped)].rates)

====
